---- MODULE Spec2Model ----
(***************************************************************************)
(* A model of num2english (src/src/lib.rs): the conversion of a number's   *)
(* decimal string into its English name.                                   *)
(*                                                                         *)
(* Rust Strings are TLA+ strings (TLC treats a string as the sequence of   *)
(* its characters: \o, Len and SubSeq apply).  BigInt values are integers; *)
(* the inputs are kept below 2^31.  A state is one call of one function of *)
(* the crate: `fn` names it, `self`, `number` and `decimal_places` are its *)
(* arguments, `pc` tells whether it was called, has returned or panicked,  *)
(* and `result` is the String it returned.                                 *)
(***************************************************************************)
EXTENDS Integers, Sequences, FiniteSets, TLC

VARIABLES fn, self, number, decimal_places, pc, result

vars == <<fn, self, number, decimal_places, pc, result>>

(***************************************************************************)
(* Bounds of the inputs.                                                   *)
(***************************************************************************)
\* the largest value of the fourth base-1000 chunk (the billions) of an input
MaxTop == 1
\* the largest number of zeros written between the point and the numerator
MaxZeros == 3

(***************************************************************************)
(* String helpers (core::str / alloc::string).                             *)
(***************************************************************************)
Char(s, i) == SubSeq(s, i, i)

contains(s, pat) ==
    \E i \in 1..(Len(s) - Len(pat) + 1) : SubSeq(s, i, i + Len(pat) - 1) = pat

starts_with(s, pat) == Len(pat) <= Len(s) /\ SubSeq(s, 1, Len(pat)) = pat

ends_with(s, pat) ==
    Len(pat) <= Len(s) /\ SubSeq(s, Len(s) - Len(pat) + 1, Len(s)) = pat

is_empty(s) == Len(s) = 0

\* a Rust slice index: table[i], counted from 0
at(table, i) == table[i + 1]

(***************************************************************************)
(* The word tables of mod scales.                                          *)
(***************************************************************************)
ONE_TO_NINETEEN ==
    << "one", "two", "three", "four", "five", "six", "seven", "eight", "nine",
       "ten", "eleven", "twelve", "thirteen", "fourteen", "fifteen", "sixteen",
       "seventeen", "eighteen", "nineteen" >>

TENS ==
    << "ten", "twenty", "thirty", "forty", "fifty", "sixty", "seventy",
       "eighty", "ninety" >>

\* the first entries of the table; the inputs stay within them, so the panic
\* of an index past the table's end is not modelled
MAGNITUDES ==
    << "thousand", "million", "billion", "trillion", "quadrillion" >>

\* the first entries of the table; the inputs stay within them
DECIMALS ==
    << "tenth", "hundredth", "thousandth", "ten-thousandth",
       "hundred-thousandth", "millionth", "ten-millionth", "hundred-millionth",
       "billionth", "ten-billionth", "hundred-billionth", "trillionth",
       "ten-trillionth", "hundred-trillionth", "quadrillionth" >>

(***************************************************************************)
(* Decimal numerals: Display and parsing.                                  *)
(***************************************************************************)
DIGITS == "0123456789"

is_digit(c) == \E d \in 0..9 : Char(DIGITS, d + 1) = c

digit_value(c) == CHOOSE d \in 0..9 : Char(DIGITS, d + 1) = c

all_digits(s) == \A i \in 1..Len(s) : is_digit(Char(s, i))

RECURSIVE digits_value(_)
digits_value(s) ==
    IF Len(s) = 0 THEN 0
    ELSE digits_value(SubSeq(s, 1, Len(s) - 1)) * 10 + digit_value(Char(s, Len(s)))

\* Display of a non-negative integer
RECURSIVE to_string(_)
to_string(n) ==
    IF n < 10 THEN Char(DIGITS, n + 1)
    ELSE to_string(n \div 10) \o Char(DIGITS, (n % 10) + 1)

\* the number of decimal digits of n
RECURSIVE num_digits(_)
num_digits(n) == IF n < 10 THEN 1 ELSE 1 + num_digits(n \div 10)

\* BigInt::parse_bytes(bytes, 10): an optional sign, then one digit or more
\* (the inputs hold no '_', which the library skips between digits)
parse_bytes(s) ==
    LET neg == starts_with(s, "-")
        body == IF neg \/ starts_with(s, "+") THEN SubSeq(s, 2, Len(s)) ELSE s
    IN  IF Len(body) > 0 /\ all_digits(body)
        THEN [some |-> TRUE,
              value |-> IF neg THEN 0 - digits_value(body) ELSE digits_value(body)]
        ELSE [some |-> FALSE, value |-> 0]

\* str::parse::<u64>().unwrap(): a failed parse panics
parse_u64(s) ==
    IF Len(s) > 0 /\ all_digits(s)
    THEN [panicked |-> FALSE, value |-> digits_value(s)]
    ELSE [panicked |-> TRUE, value |-> 0]

\* str::split('.'): the substrings between the points
RECURSIVE split(_)
split(s) ==
    IF ~contains(s, ".") THEN << s >>
    ELSE LET d == CHOOSE i \in 1..Len(s) :
                     Char(s, i) = "." /\ \A j \in 1..(i - 1) : Char(s, j) # "."
         IN  << SubSeq(s, 1, d - 1) >> \o split(SubSeq(s, d + 1, Len(s)))

None == [some |-> FALSE, value |-> 0]
Some(v) == [some |-> TRUE, value |-> v]

(***************************************************************************)
(* The functions of the crate.                                             *)
(***************************************************************************)
\* parse_big_int without its test for zero: a parsed 0 is kept as Some(0)
parse_big_int_keeps_zero(n) ==
    IF parse_bytes(n).some THEN Some(parse_bytes(n).value) ELSE None

parse_big_int(n) ==
    LET bigint == IF parse_bytes(n).some THEN parse_bytes(n).value ELSE 0
    IN  IF bigint = 0 THEN None ELSE Some(bigint)

\* split_number counting the digits of the parsed fraction, not the characters
split_number_counts_value(string) ==
    LET parts == split(string)
    IN  [integer |-> parse_big_int(parts[1]),
         decimal |-> IF Len(parts) > 1 THEN parse_big_int(parts[2]) ELSE None,
         decimal_places |->
             IF Len(parts) > 1 /\ parse_bytes(parts[2]).some
             THEN num_digits(parse_bytes(parts[2]).value)
             ELSE 0]

split_number(string) ==
    LET parts == split(string)
    IN  [integer |-> parse_big_int(parts[1]),
         decimal |-> IF Len(parts) > 1 THEN parse_big_int(parts[2]) ELSE None,
         decimal_places |-> IF Len(parts) > 1 THEN Len(parts[2]) ELSE 0]

\* the tens and ones of a chunk, once the hundreds are taken off
tens_to_english(n) ==
    IF n > 0
    THEN IF n < 20
         THEN at(ONE_TO_NINETEEN, n - 1)
         ELSE at(TENS, (n \div 10) - 1)
              \o (IF n % 10 > 0 THEN "-" \o at(ONE_TO_NINETEEN, (n % 10) - 1)
                  ELSE "")
    ELSE ""

\* convert_hundreds_to_english pushing the space after "hundred" every time
convert_hundreds_always_spaces(n) ==
    LET parsed == parse_u64(to_string(n)).value
        hundreds == parsed \div 100
        rest == parsed % 100
    IN  (IF hundreds > 0
         THEN at(ONE_TO_NINETEEN, hundreds - 1) \o " hundred" \o " "
         ELSE "")
        \o tens_to_english(rest)

convert_hundreds_to_english(n) ==
    LET parsed == parse_u64(to_string(n)).value
        hundreds == parsed \div 100
        rest == parsed % 100
    IN  (IF hundreds > 0
         THEN at(ONE_TO_NINETEEN, hundreds - 1) \o " hundred"
              \o (IF rest > 0 THEN " " ELSE "")
         ELSE "")
        \o tens_to_english(rest)

\* integer_chunk reading the magnitude word one place too far
integer_chunk_shifted(remainder, magnitude, res) ==
    convert_hundreds_to_english(remainder)
    \o (IF magnitude > 0 THEN " " \o at(MAGNITUDES, magnitude) ELSE "")
    \o (IF ~is_empty(res) THEN " " ELSE "")
    \o res

\* one named chunk put in front of the result so far (the integer loop's body)
integer_chunk(remainder, magnitude, res) ==
    convert_hundreds_to_english(remainder)
    \o (IF magnitude > 0 THEN " " \o at(MAGNITUDES, magnitude - 1) ELSE "")
    \o (IF ~is_empty(res) THEN " " ELSE "")
    \o res

RECURSIVE integer_loop(_, _, _)
integer_loop(n, magnitude, res) ==
    IF n > 0
    THEN LET remainder == n % 1000
         IN  integer_loop((n - remainder) \div 1000, magnitude + 1,
                          IF remainder > 0
                          THEN integer_chunk(remainder, magnitude, res)
                          ELSE res)
    ELSE res

convert_integer_to_english(n) == integer_loop(n, 0, "")

\* the place-value word, in the plural for a numerator above 1
decimal_suffix(n, places) ==
    at(DECIMALS, places - 1) \o (IF n > 1 THEN "s" ELSE "")

\* one named chunk put in front of the result so far (the decimal loop's body)
decimal_chunk(remainder, magnitude, res) ==
    convert_hundreds_to_english(remainder)
    \o (IF magnitude > 0 THEN " " \o at(MAGNITUDES, magnitude) ELSE "")
    \o (IF ~is_empty(res) THEN " " ELSE "")
    \o res

RECURSIVE decimal_loop(_, _, _)
decimal_loop(n, magnitude, res) ==
    IF n > 0 /\ magnitude < 3
    THEN LET remainder == n % 1000
         IN  decimal_loop((n - remainder) \div 1000, magnitude + 1,
                          IF remainder > 0
                          THEN decimal_chunk(remainder, magnitude, res)
                          ELSE res)
    ELSE res

convert_decimal_to_english(n, places) ==
    decimal_loop(n, 0, "") \o " " \o decimal_suffix(n, places)

\* convert_number_to_english pushing " and " without looking at has_integer
convert_number_always_and(string) ==
    LET sn == split_number(string)
        integer_part ==
            IF sn.integer.some
            THEN IF sn.integer.value < 0
                 THEN "negative " \o convert_integer_to_english(0 - sn.integer.value)
                 ELSE convert_integer_to_english(sn.integer.value)
            ELSE ""
        decimal_part ==
            IF sn.decimal.some
            THEN " and "
                 \o convert_decimal_to_english(sn.decimal.value, sn.decimal_places)
            ELSE ""
        res == integer_part \o decimal_part
    IN  IF is_empty(res) THEN "zero" ELSE res

convert_number_to_english(string) ==
    LET sn == split_number(string)
        has_integer == sn.integer.some
        integer_part ==
            IF sn.integer.some
            THEN IF sn.integer.value < 0
                 THEN "negative " \o convert_integer_to_english(0 - sn.integer.value)
                 ELSE convert_integer_to_english(sn.integer.value)
            ELSE ""
        decimal_part ==
            IF sn.decimal.some
            THEN (IF has_integer THEN " and " ELSE "")
                 \o convert_decimal_to_english(sn.decimal.value, sn.decimal_places)
            ELSE ""
        res == integer_part \o decimal_part
    IN  IF is_empty(res) THEN "zero" ELSE res

(***************************************************************************)
(* The number to_english is called on.  kind "number" is a plain decimal   *)
(* value: sign, integer part, and (when point) the digits after the point, *)
(* written as `zeros` zeros followed by the numerator `num` (nothing for   *)
(* num = 0).  kind "exp" is a value whose Display uses an exponent, with   *)
(* `marker` as the exponent marker; "nan" and "inf" are the floats' NaN and *)
(* infinities.                                                             *)
(***************************************************************************)
RECURSIVE zeros_string(_)
zeros_string(k) == IF k = 0 THEN "" ELSE "0" \o zeros_string(k - 1)

\* the digits written after the point
fraction_digits(x) ==
    zeros_string(x.zeros) \o (IF x.num > 0 THEN to_string(x.num) ELSE "")

\* self.to_string(): the canonical decimal string of the value
Display(x) ==
    IF x.kind = "nan" THEN "NaN"
    ELSE IF x.kind = "inf" THEN (IF x.neg THEN "-inf" ELSE "inf")
    ELSE (IF x.neg THEN "-" ELSE "")
         \o to_string(x.int)
         \o (IF x.point THEN "." \o fraction_digits(x) ELSE "")
         \o (IF x.kind = "exp" THEN x.marker \o "3" ELSE "")

\* NumberToEnglish::to_english
to_english(x) ==
    LET string == Display(x)
    IN  IF contains(string, "e")
        THEN [panicked |-> TRUE, value |-> ""]
        ELSE [panicked |-> FALSE, value |-> convert_number_to_english(string)]

(***************************************************************************)
(* The inputs.                                                             *)
(***************************************************************************)
\* the values the three low base-1000 chunks of an input take
ChunkSamples == {0, 1, 21, 105}

\* integers of up to four chunks
IntSamples ==
    { ((c3 * 1000 + c2) * 1000 + c1) * 1000 + c0 :
        c3 \in 0..MaxTop, c2 \in ChunkSamples, c1 \in ChunkSamples,
        c0 \in ChunkSamples }

\* the integer parts of the inputs that have a point
SmallInts == {0, 1, 1021}

NoSelf ==
    [kind |-> "none", neg |-> FALSE, int |-> 0, point |-> FALSE, zeros |-> 0,
     num |-> 0, marker |-> ""]

Integers_ ==
    { [kind |-> "number", neg |-> n, int |-> i, point |-> FALSE, zeros |-> 0,
       num |-> 0, marker |-> ""] : n \in BOOLEAN, i \in IntSamples }

Decimals ==
    { x \in [kind : {"number"}, neg : BOOLEAN, int : SmallInts, point : {TRUE},
             zeros : 0..MaxZeros, num : IntSamples, marker : {""}] :
        x.zeros + x.num > 0 }

Exponentials ==
    [kind : {"exp"}, neg : BOOLEAN, int : {1, 12}, point : BOOLEAN,
     zeros : {0}, num : {5}, marker : {"e", "E"}]

Specials ==
    [kind : {"nan", "inf"}, neg : BOOLEAN, int : {0}, point : {FALSE},
     zeros : {0}, num : {0}, marker : {""}]

Selves == Integers_ \cup Decimals \cup Exponentials \cup Specials

(***************************************************************************)
(* The state machine: one call, then its return or its panic.              *)
(***************************************************************************)
Init ==
    /\ pc = "called"
    /\ result = ""
    /\ \/ /\ fn = "to_english"
          /\ self \in Selves
          /\ number = 0
          /\ decimal_places = 0
       \/ /\ fn = "convert_integer_to_english"
          /\ self = NoSelf
          /\ number \in IntSamples
          /\ decimal_places = 0
       \/ /\ fn = "convert_decimal_to_english"
          /\ self = NoSelf
          /\ number \in IntSamples \ {0}
          /\ \E z \in 0..MaxZeros : decimal_places = num_digits(number) + z
       \/ /\ fn = "convert_hundreds_to_english"
          /\ self = NoSelf
          /\ number \in 0..999
          /\ decimal_places = 0

ToEnglish ==
    /\ pc = "called"
    /\ fn = "to_english"
    /\ pc' = IF to_english(self).panicked THEN "panicked" ELSE "returned"
    /\ result' = to_english(self).value
    /\ UNCHANGED <<fn, self, number, decimal_places>>

ConvertInteger ==
    /\ pc = "called"
    /\ fn = "convert_integer_to_english"
    /\ pc' = "returned"
    /\ result' = convert_integer_to_english(number)
    /\ UNCHANGED <<fn, self, number, decimal_places>>

ConvertDecimal ==
    /\ pc = "called"
    /\ fn = "convert_decimal_to_english"
    /\ pc' = "returned"
    /\ result' = convert_decimal_to_english(number, decimal_places)
    /\ UNCHANGED <<fn, self, number, decimal_places>>

ConvertHundreds ==
    /\ pc = "called"
    /\ fn = "convert_hundreds_to_english"
    /\ pc' = "returned"
    /\ result' = convert_hundreds_to_english(number)
    /\ UNCHANGED <<fn, self, number, decimal_places>>

Next == ToEnglish \/ ConvertInteger \/ ConvertDecimal \/ ConvertHundreds

Spec == Init /\ [][Next]_vars

(***************************************************************************)
(* Properties.                                                             *)
(***************************************************************************)
\* to_english was called on a plain decimal value
OnNumber == fn = "to_english" /\ self.kind = "number"

\* the number of characters written after the point
PlacesOf(x) == x.zeros + (IF x.num > 0 THEN num_digits(x.num) ELSE 0)

\* the value of the base-1000 chunk of n at position k (0 the least significant)
RECURSIVE ChunkAt(_, _)
ChunkAt(n, k) == IF k = 0 THEN n % 1000 ELSE ChunkAt(n \div 1000, k - 1)

\* the number of base-1000 chunks of n
RECURSIVE NumChunks(_)
NumChunks(n) == IF n = 0 THEN 0 ELSE 1 + NumChunks(n \div 1000)

\* the chunk at position k named, followed by the k-th magnitude word
RefPiece(n, k) ==
    convert_hundreds_to_english(ChunkAt(n, k))
    \o (IF k >= 1 THEN " " \o MAGNITUDES[k] ELSE "")

\* the non-zero chunks at positions k, k-1, ..., 0, the most significant first,
\* joined by single spaces
RECURSIVE RefName(_, _)
RefName(n, k) ==
    IF k < 0 THEN ""
    ELSE LET rest == RefName(n, k - 1)
         IN  IF ChunkAt(n, k) = 0 THEN rest
             ELSE IF rest = "" THEN RefPiece(n, k)
             ELSE RefPiece(n, k) \o " " \o rest

\* C1: for an integer input n >= 1, to_english returns the reference naming:
\* the non-zero base-1000 chunks, most significant first, each named by the
\* Chunk Namer and followed by its magnitude word, joined by single spaces.
C1_IntegerNaming ==
    (OnNumber /\ ~self.neg /\ ~self.point /\ self.int >= 1)
        => /\ pc # "panicked"
           /\ pc = "returned"
                => result = RefName(self.int, NumChunks(self.int) - 1)

\* to_english(1_000_021) has returned, skipping the zero chunk of the thousands
C1_Witness ==
    /\ OnNumber /\ pc = "returned"
    /\ ~self.neg /\ ~self.point /\ self.int = 1000021
    /\ result = "one million twenty-one"

\* C2: when the integer part and the fractional part are both zero, whatever
\* the sign and the number of fractional digits, to_english returns "zero",
\* without the word "negative".
C2_Zero ==
    (OnNumber /\ self.int = 0 /\ self.num = 0)
        => /\ pc # "panicked"
           /\ pc = "returned"
                => result = "zero" /\ ~contains(result, "negative")

\* to_english("-0.00") has returned
C2_Witness ==
    /\ OnNumber /\ pc = "returned"
    /\ self.neg /\ self.int = 0 /\ self.point /\ self.zeros = 2 /\ self.num = 0
    /\ Display(self) = "-0.00"
    /\ result = "zero"

\* C3 as stated: for every non-zero x, to_english(-x) is "negative " followed
\* by to_english(x).
C3_NegationPrefix ==
    (OnNumber /\ pc = "returned" /\ self.neg /\ (self.int # 0 \/ self.num # 0))
        => result = "negative " \o to_english([self EXCEPT !.neg = FALSE]).value

\* the integer phrase of the input: the sign's prefix and the integer's name
IntegerPhrase(x) ==
    (IF x.neg THEN "negative " ELSE "") \o convert_integer_to_english(x.int)

\* the fraction phrase of the input
FractionPhrase(x) == convert_decimal_to_english(x.num, PlacesOf(x))

\* C4: with both parts non-zero the output is the integer phrase, " and ", the
\* fraction phrase; with a zero integer part and a non-zero fraction it is the
\* fraction phrase alone; with a zero or absent fraction it holds no " and "
\* and no place-value word.
C4_Assembly ==
    (OnNumber /\ pc = "returned")
        => /\ (self.int # 0 /\ self.point /\ self.num # 0)
                => result = IntegerPhrase(self) \o " and " \o FractionPhrase(self)
           /\ (self.int = 0 /\ self.point /\ self.num # 0)
                => result = FractionPhrase(self)
           /\ (~self.point \/ self.num = 0)
                => /\ ~contains(result, " and ")
                   /\ \A i \in 1..Len(DECIMALS) : ~contains(result, DECIMALS[i])

\* to_english("-1021.021") and to_english("0.021") have returned
C4_Witness ==
    /\ OnNumber /\ pc = "returned"
    /\ self.point /\ self.zeros = 1 /\ self.num = 21
    /\ \/ /\ self.neg /\ self.int = 1021
          /\ result = "negative one thousand twenty-one and twenty-one thousandths"
       \/ /\ ~self.neg /\ self.int = 0
          /\ result = "twenty-one thousandths"

C6_ExponentPanics ==
    ( /\ fn = "to_english"
      /\ contains(Display(self), "e") \/ contains(Display(self), "E") )
        => pc # "returned"

\* C7 as stated: for a numerator below 10^9 the words before the place-value
\* word are the Integer Namer's name of the numerator.
C7_FractionUsesIntegerName ==
    ( /\ fn = "convert_decimal_to_english" /\ pc = "returned"
      /\ number >= 1 /\ number < 1000000000 )
        => result = convert_integer_to_english(number) \o " "
                    \o decimal_suffix(number, decimal_places)

\* the Chunk Namer's result as the words of the tables
ChunkRef(n) ==
    LET h == n \div 100
        r == n % 100
    IN  (IF h > 0 THEN ONE_TO_NINETEEN[h] \o " hundred" ELSE "")
        \o (IF h > 0 /\ r > 0 THEN " " ELSE "")
        \o (IF r = 0 THEN ""
            ELSE IF r < 20 THEN ONE_TO_NINETEEN[r]
            ELSE IF r % 10 = 0 THEN TENS[r \div 10]
            ELSE TENS[r \div 10] \o "-" \o ONE_TO_NINETEEN[r % 10])

\* C8: for 0 <= n <= 999 the Chunk Namer returns the hundreds' word and
\* " hundred", a space when both parts are there, and the word of the rest
\* (1-19, or tens-word, "-", ones-word); the result is empty only for 0, never
\* begins or ends with a space, and for 1 <= n < 20 is the n-th word of the
\* ones table.
C8_ChunkNamer ==
    (fn = "convert_hundreds_to_english" /\ pc = "returned")
        => /\ result = ChunkRef(number)
           /\ result = "" <=> number = 0
           /\ ~starts_with(result, " ")
           /\ ~ends_with(result, " ")
           /\ (1 <= number /\ number < 20) => result = ONE_TO_NINETEEN[number]

\* convert_hundreds_to_english(321) has returned
C8_Witness ==
    /\ fn = "convert_hundreds_to_english" /\ pc = "returned"
    /\ number = 321
    /\ result = "three hundred twenty-one"

\* a valid base-10 numeral: an optional sign (when signed) and digits
ValidNumeral(s, signed) ==
    LET body == IF signed /\ (starts_with(s, "-") \/ starts_with(s, "+"))
                THEN SubSeq(s, 2, Len(s)) ELSE s
    IN  Len(body) > 0 /\ all_digits(body)

\* the integer and the fractional substring are both valid numerals
WellFormed(string) ==
    LET parts == split(string)
    IN  /\ ValidNumeral(parts[1], TRUE)
        /\ Len(parts) > 1 => ValidNumeral(parts[2], FALSE)

\* C9 as stated: a canonical string whose integer or fractional substring is
\* no valid base-10 numeral makes the conversion fail; it returns nothing.
C9_MalformedFails ==
    (fn = "to_english" /\ ~WellFormed(Display(self))) => pc # "returned"

\* C10 as stated: for a fixed decimal_places no other non-zero numerator gives
\* the same output, and the output does not start with a space.
C10_FractionInjective ==
    (fn = "convert_decimal_to_english" /\ pc = "returned")
        => /\ ~starts_with(result, " ")
           /\ \A m \in IntSamples \ {0, number} :
                num_digits(m) <= decimal_places
                    => convert_decimal_to_english(m, decimal_places) # result
====
